---------------------------- MODULE Spec2Model ----------------------------
(***************************************************************************)
(* Model of the nikobusconnect client: the frame codec (protocol.py), the  *)
(* queue-based command handler with its correlated request/retry loop      *)
(* (command_handler.py), the lock-based command handler with its module    *)
(* state cache (command.py), the listener with its framer, validator and   *)
(* dispatch (listener.py) and the connection with its handshake            *)
(* (nkbconnect.py).                                                        *)
(*                                                                         *)
(* Frames and commands are the strings the code builds.  Python slices     *)
(* s[a:b] are SubSeq(s, a+1, b).  Time is counted in ticks of one second:  *)
(* a deadline is kept as the number of ticks left until it passes.         *)
(***************************************************************************)
EXTENDS Integers, Sequences, FiniteSets, TLC

(***************************************************************************)
(* Bounds of the model.                                                    *)
(***************************************************************************)
\* most commands submitted on the fire-and-forget path in one run
MaxCmds == 3
MaxText == 5
MaxTasks == 2
MaxRaw == 24

(***************************************************************************)
(* Program constants.                                                      *)
(***************************************************************************)
MAX_ATTEMPTS == 3
COMMAND_ACK_WAIT_TIMEOUT == 2
COMMAND_ANSWER_WAIT_TIMEOUT == 5

None == "None"

(***************************************************************************)
(* protocol.py: the codec.                                                 *)
(***************************************************************************)
\* the digit of 'X' formatting for a value below 16
HexDigit(n) ==
    CASE n = 0 -> "0" [] n = 1 -> "1" [] n = 2 -> "2" [] n = 3 -> "3"
      [] n = 4 -> "4" [] n = 5 -> "5" [] n = 6 -> "6" [] n = 7 -> "7"
      [] n = 8 -> "8" [] n = 9 -> "9" [] n = 10 -> "A" [] n = 11 -> "B"
      [] n = 12 -> "C" [] n = 13 -> "D" [] n = 14 -> "E" [] n = 15 -> "F"

\* the value of one hex digit, as int(c, 16) reads it
HexVal(c) ==
    CASE c = "0" -> 0 [] c = "1" -> 1 [] c = "2" -> 2 [] c = "3" -> 3
      [] c = "4" -> 4 [] c = "5" -> 5 [] c = "6" -> 6 [] c = "7" -> 7
      [] c = "8" -> 8 [] c = "9" -> 9 [] c = "A" -> 10 [] c = "B" -> 11
      [] c = "C" -> 12 [] c = "D" -> 13 [] c = "E" -> 14 [] c = "F" -> 15
      [] c = "a" -> 10 [] c = "b" -> 11 [] c = "c" -> 12 [] c = "d" -> 13
      [] c = "e" -> 14 [] c = "f" -> 15

RECURSIVE HexOf(_)
HexOf(value) ==
    IF value < 16 THEN HexDigit(value)
    ELSE HexOf(value \div 16) \o HexDigit(value % 16)

RECURSIVE Zeros(_)
Zeros(n) == IF n <= 0 THEN "" ELSE "0" \o Zeros(n - 1)

\* '{:0<digits>X}'.format(value): padded to at least `digits`, never cut
int_to_hex(value, digits) ==
    LET h == HexOf(value) IN Zeros(digits - Len(h)) \o h

RECURSIVE ParseHex(_)
\* int(s, 16) for a string of hex digits
ParseHex(s) ==
    IF Len(s) = 0 THEN 0
    ELSE 16 * ParseHex(SubSeq(s, 1, Len(s) - 1)) + HexVal(SubSeq(s, Len(s), Len(s)))

\* the lower-case hex digits
IsLower(c) == c = "a" \/ c = "b" \/ c = "c" \/ c = "d" \/ c = "e" \/ c = "f"

\* a ^ b for two values below 16: XorNibble[a + 1][b + 1]
XorNibble ==
    <<<< 0,  1,  2,  3,  4,  5,  6,  7,  8,  9, 10, 11, 12, 13, 14, 15>>,
      << 1,  0,  3,  2,  5,  4,  7,  6,  9,  8, 11, 10, 13, 12, 15, 14>>,
      << 2,  3,  0,  1,  6,  7,  4,  5, 10, 11,  8,  9, 14, 15, 12, 13>>,
      << 3,  2,  1,  0,  7,  6,  5,  4, 11, 10,  9,  8, 15, 14, 13, 12>>,
      << 4,  5,  6,  7,  0,  1,  2,  3, 12, 13, 14, 15,  8,  9, 10, 11>>,
      << 5,  4,  7,  6,  1,  0,  3,  2, 13, 12, 15, 14,  9,  8, 11, 10>>,
      << 6,  7,  4,  5,  2,  3,  0,  1, 14, 15, 12, 13, 10, 11,  8,  9>>,
      << 7,  6,  5,  4,  3,  2,  1,  0, 15, 14, 13, 12, 11, 10,  9,  8>>,
      << 8,  9, 10, 11, 12, 13, 14, 15,  0,  1,  2,  3,  4,  5,  6,  7>>,
      << 9,  8, 11, 10, 13, 12, 15, 14,  1,  0,  3,  2,  5,  4,  7,  6>>,
      <<10, 11,  8,  9, 14, 15, 12, 13,  2,  3,  0,  1,  6,  7,  4,  5>>,
      <<11, 10,  9,  8, 15, 14, 13, 12,  3,  2,  1,  0,  7,  6,  5,  4>>,
      <<12, 13, 14, 15,  8,  9, 10, 11,  4,  5,  6,  7,  0,  1,  2,  3>>,
      <<13, 12, 15, 14,  9,  8, 11, 10,  5,  4,  7,  6,  1,  0,  3,  2>>,
      <<14, 15, 12, 13, 10, 11,  8,  9,  6,  7,  4,  5,  2,  3,  0,  1>>,
      <<15, 14, 13, 12, 11, 10,  9,  8,  7,  6,  5,  4,  3,  2,  1,  0>>>>

RECURSIVE BitXor(_, _)
\* Python's a ^ b, four bits at a time
BitXor(a, b) ==
    IF a < 16 /\ b < 16 THEN XorNibble[a + 1][b + 1]
    ELSE 16 * BitXor(a \div 16, b \div 16) + XorNibble[(a % 16) + 1][(b % 16) + 1]

RECURSIVE Crc1Shift(_, _)
\* the 8 shifts of calc_crc1 for one byte
Crc1Shift(crc, n) ==
    IF n = 0 THEN crc
    ELSE IF (crc \div 32768) % 2 = 1
         THEN Crc1Shift(BitXor(crc * 2, 4129) % 65536, n - 1)
         ELSE Crc1Shift((crc * 2) % 65536, n - 1)

RECURSIVE Crc1From(_, _, _)
\* the bytes of calc_crc1 from byte j on (j counts from 0, as in the code)
\* (crc is always below 65536: the test makes TLC evaluate it before it recurses)
Crc1From(crc, data, j) ==
    IF j >= Len(data) \div 2 \/ crc >= 65536 THEN crc
    ELSE Crc1From(Crc1Shift(BitXor(crc, ParseHex(SubSeq(data, j * 2 + 1, (j + 1) * 2)) * 256), 8),
                  data, j + 1)

calc_crc1(data) == Crc1From(65535, data, 0)

\* ord(char) for the characters a frame is made of
Ord(c) ==
    IF c = "$" THEN 36
    ELSE IF c = "#" THEN 35
    ELSE IF c = " " THEN 32
    ELSE IF c = "G" THEN 71
    ELSE IF IsLower(c) THEN 87 + HexVal(c)
    ELSE LET n == HexVal(c) IN IF n < 10 THEN 48 + n ELSE 55 + n

RECURSIVE Crc2Shift(_, _)
\* the 8 shifts of calc_crc2 for one character
Crc2Shift(crc, n) ==
    IF n = 0 THEN crc
    ELSE IF (crc \div 128) % 2 = 1
         THEN Crc2Shift(BitXor(crc * 2, 153) % 256, n - 1)
         ELSE Crc2Shift((crc * 2) % 256, n - 1)

RECURSIVE Crc2From(_, _, _)
\* the characters of calc_crc2 from the i-th on
\* (crc is always below 256: the test makes TLC evaluate it before it recurses)
Crc2From(crc, data, i) ==
    IF i > Len(data) \/ crc >= 256 THEN crc
    ELSE Crc2From(Crc2Shift(BitXor(crc, Ord(SubSeq(data, i, i))), 8), data, i + 1)

calc_crc2(data) == Crc2From(0, data, 1)

append_crc1(data) == data \o int_to_hex(calc_crc1(data), 4)

append_crc2(data) == data \o int_to_hex(calc_crc2(data), 2)

RECURSIVE BytesHex(_)
\* bytes.hex().upper() of a sequence of byte values
BytesHex(args) ==
    IF Len(args) = 0 THEN ""
    ELSE int_to_hex(Head(args), 2) \o BytesHex(Tail(args))

\* a builder that writes the address high byte first
make_pc_link_command_high_first(func, addr, args) ==
    LET addr_int == ParseHex(addr)
        data == int_to_hex(func, 2)
                \o int_to_hex((addr_int \div 256) % 256, 2)
                \o int_to_hex(addr_int % 256, 2)
                \o BytesHex(args)
        data_with_crc1 == append_crc1(data)
        command_length == int_to_hex((Len(data_with_crc1) \div 2) + 1, 2)
    IN append_crc2("$" \o command_length \o data_with_crc1)

\* args is a sequence of byte values; <<>> stands for args = None (and for b'')
make_pc_link_command(func, addr, args) ==
    LET addr_int == ParseHex(addr)
        data == int_to_hex(func, 2)
                \o int_to_hex(addr_int % 256, 2)
                \o int_to_hex((addr_int \div 256) % 256, 2)
                \o BytesHex(args)
        data_with_crc1 == append_crc1(data)
        command_length == int_to_hex((Len(data_with_crc1) \div 2) + 1, 2)
    IN append_crc2("$" \o command_length \o data_with_crc1)

calculate_group_number(channel) == ((channel - 1) \div 6) + 1

(***************************************************************************)
(* listener.py: the validator.                                             *)
(***************************************************************************)
\* str.upper() on the characters the frames are made of
Upper(c) ==
    CASE c = "a" -> "A" [] c = "b" -> "B" [] c = "c" -> "C" [] c = "d" -> "D"
      [] c = "e" -> "E" [] c = "f" -> "F" [] OTHER -> c

RECURSIVE upper(_)
upper(s) ==
    IF Len(s) = 0 THEN "" ELSE Upper(SubSeq(s, 1, 1)) \o upper(SubSeq(s, 2, Len(s)))

\* the characters str.strip() and int() take for white space
IsSpace(c) == c = " " \/ c = "\t" \/ c = "\n" \/ c = "\r"

RECURSIVE strip(_)
\* str.strip()
strip(s) ==
    IF Len(s) = 0 THEN s
    ELSE IF IsSpace(SubSeq(s, 1, 1)) THEN strip(SubSeq(s, 2, Len(s)))
    ELSE IF IsSpace(SubSeq(s, Len(s), Len(s))) THEN strip(SubSeq(s, 1, Len(s) - 1))
    ELSE s

IsHexDigit(c) ==
    IsLower(c) \/ c = "0" \/ c = "1" \/ c = "2" \/ c = "3" \/ c = "4" \/ c = "5"
        \/ c = "6" \/ c = "7" \/ c = "8" \/ c = "9" \/ c = "A" \/ c = "B"
        \/ c = "C" \/ c = "D" \/ c = "E" \/ c = "F"

\* int(s, 16) where it may raise: -1 stands for ValueError (white space around
\* the digits is allowed; signs, prefixes and underscores are not modelled)
HexField(s) ==
    LET t == strip(s)
    IN IF Len(t) > 0 /\ \A i \in 1..Len(t) : IsHexDigit(SubSeq(t, i, i))
       THEN ParseHex(t) ELSE -1

\* str.startswith
StartsWith(s, prefix) == Len(s) >= Len(prefix) /\ SubSeq(s, 1, Len(prefix)) = prefix

\* str.count of one character
Count(s, c) == Cardinality({i \in 1..Len(s) : SubSeq(s, i, i) = c})

\* s[s.find(c, 1):] for a string that holds c after its first character
FromSecond(s, c) ==
    LET at == {i \in 2..Len(s) : SubSeq(s, i, i) = c}
        first == CHOOSE i \in at : \A j \in at : i <= j
    IN SubSeq(s, first, Len(s))

RECURSIVE Repeat(_, _)
\* s * n
Repeat(s, n) ==
    IF n = 0 THEN ""
    ELSE IF n % 2 = 0 THEN LET half == Repeat(s, n \div 2) IN half \o half
    ELSE s \o Repeat(s, n - 1)

\* a comparison that looks at the first CRC-8 digit only
Crc8MatchesFirstDigit(calculated_crc8, expected_crc8) ==
    SubSeq(upper(calculated_crc8), 1, 1) = SubSeq(upper(expected_crc8), 1, 1)

\* `calculated_crc8.upper() == expected_crc8.upper()`
Crc8Matches(calculated_crc8, expected_crc8) ==
    upper(calculated_crc8) = upper(expected_crc8)

\* the body of validate_crc's try: "True" or "False" for what it returns,
\* "ValueError" when int() raises
TryValidate(message) ==
    LET n == Len(message)
        expected_total == HexField(SubSeq(message, 2, IF n < 3 THEN n ELSE 3))
    IN IF expected_total < 0 THEN "ValueError"
       ELSE IF n # expected_total - 1 THEN "False"
       ELSE LET payload_with_crc16 == SubSeq(message, 1, n - 2)
                expected_crc8 == SubSeq(message, IF n < 2 THEN 1 ELSE n - 1, n)
                calculated_crc8 == int_to_hex(calc_crc2(payload_with_crc16), 2)
            IN IF Crc8Matches(calculated_crc8, expected_crc8)
               THEN "True" ELSE "False"

\* `except Exception: return False`
ExceptException(outcome) ==
    IF outcome \in {"True", "False"} THEN outcome ELSE "False"

\* the interpreter's limit on the depth of the call stack (the default of
\* sys.getrecursionlimit()): a call that would go deeper raises RecursionError
RecursionLimit == 1000

\* the validate_crc frames a call stacks up: each recursive call drops the
\* text before the next `$`, so a message with several `$` takes one frame
\* per `$`, and one more when it does not start with `$`
StackFrames(message) ==
    LET dollars == Count(message, "$")
    IN IF dollars <= 1 THEN 1
       ELSE IF StartsWith(message, "$") THEN dollars
       ELSE dollars + 1

RECURSIVE Validated(_)
\* how a call of validate_crc ends when the stack is deep enough: "True" or
\* "False"; the recursive call for a message with several `$` stands before
\* the try
Validated(message) ==
    IF Count(message, "$") > 1
    THEN Validated(FromSecond(message, "$"))
    ELSE IF Len(message) = 5 /\ StartsWith(message, "$05")
    THEN "True"
    ELSE ExceptException(TryValidate(message))

\* how a call of validate_crc by a caller that is the only frame on the stack
\* ends: "True", "False", or the exception that leaves it
ValidateOutcome(message) ==
    IF 1 + StackFrames(message) > RecursionLimit
    THEN "RecursionError"
    ELSE Validated(message)

\* validate_crc(message), for a call that returns
validate_crc(message) == ValidateOutcome(message) = "True"

(***************************************************************************)
(* Inputs.                                                                 *)
(***************************************************************************)
Addresses == {"1A2B", "3C4D"}
Groups == {1, 2}
Channels == {1, 3, 7}
Values == {1, 255}

\* the frames connection.receive() hands to a waiting correlated request
Frames == {"$0512", "$0517", "$1C2B1A00FF", "$1C2B1AFF00", "$1C4D3C00FF",
           "$0512$1C2B1A00FF", "#N4ECB1A"}

\* the function codes, the data and the addresses handed to make_pc_link_command
Functions == {17, 18, 21, 22, 23}
ArgLists ==
    {<<>>} \cup {<<255, 0, 0, 0, 0, 0>>, <<0, 0, 1, 0, 0, 0>>, <<1, 2, 3, 4, 5, 6>>}
        \cup {[i \in 1..7 |-> IF i = 7 THEN 255 ELSE IF i = c THEN v ELSE 0] :
                  c \in 1..3, v \in Values}
BuildAddresses == Addresses \cup {"0000", "FFFF", "00A0"}

\* the values and widths handed to int_to_hex
FormatValues == {0, 1, 9, 10, 15, 16, 18, 255, 256, 4095, 4096, 65535, 65536}
FormatDigits == {1, 2, 4}

\* a frame as the controller sends it: the length field counts the whole frame
\* plus one, and the CRC-8 covers all that precedes it
BusFrame(body) == append_crc2("$" \o int_to_hex(Len(body) + 6, 2) \o body)

\* a frame with bit k of its CRC-8 value flipped
FlipCrcBit(message, k) ==
    LET n == Len(message)
        crc == ParseHex(SubSeq(message, n - 1, n))
    IN SubSeq(message, 1, n - 2) \o int_to_hex(BitXor(crc, 2 ^ k), 2)

\* the last two characters in lower case
LowerCrc(message) ==
    LET n == Len(message)
        low(c) == CASE c = "A" -> "a" [] c = "B" -> "b" [] c = "C" -> "c"
                    [] c = "D" -> "d" [] c = "E" -> "e" [] c = "F" -> "f"
                    [] OTHER -> c
    IN SubSeq(message, 1, n - 2) \o low(SubSeq(message, n - 1, n - 1))
           \o low(SubSeq(message, n, n))

\* the bodies of the frames handed to validate_crc
Bodies == {"", "12", "2B1A00FF", "4D3C00FF0000", "1004", "050000"}

\* the messages handed to validate_crc: frames of the controller, the same with
\* one CRC-8 bit flipped, with lower-case CRC digits, behind another frame,
\* acknowledgments, built commands and malformed text
Messages ==
    LET good == {BusFrame(b) : b \in Bodies}
    IN good \cup {FlipCrcBit(m, k) : m \in good, k \in 0..7}
            \cup {LowerCrc(m) : m \in good}
            \cup {"$0512" \o m : m \in good}
            \cup {"$0512", "$05FF", "$0512$05FF", "$05", "$0512AB", "$", "$G6",
                   "", "A", "$0", "$$", "$0G12", Repeat("$", RecursionLimit),
                   "#N4ECB1A", "$ 6", "$06122B1A88F863", "$0D152B1AFF0000000000FF03D148"}

\* what connection.read() hands the listener: an acknowledgment, a frame of
\* the controller whole and in two reads, one with a wrong CRC-8, a `$05` frame
\* that is no acknowledgment, a button press, two frames in one segment
RawChunks ==
    {"$0512\r", "$0E2B1A00FF34\r", "$0E2B1A", "00FF34\r", "$0E2B1A00FF35\r",
     "$0512AB\r", "#N4ECB1A\r", "{$0636}\r\n", "$0512$0636\r"}

\* the tasks calling send_command_get_answer / get_output_state
Requesters == {"r1", "r2"}

\* Python's `sig in message`
Contains(sig, message) ==
    \E i \in 1..(Len(message) - Len(sig) + 1) :
        SubSeq(message, i, i + Len(sig) - 1) = sig

(***************************************************************************)
(* State.                                                                  *)
(*   req[r]  the correlated request of task r: its position (pc), the      *)
(*           locals of _wait_for_signals, its timers, and a record of the  *)
(*           frames it has been handed (seenAck, seenAns, seenBoth,        *)
(*           firstSeen, lastAns)                                           *)
(*   running, loop, command_queue                                           *)
(*           the queue-based handler of command_handler.py: _running, the  *)
(*           position of the _process_commands task with the command it    *)
(*           holds, and _command_queue                                     *)
(*   submitted, wire                                                       *)
(*           the commands handed to the fire-and-forget path, in the order *)
(*           of the calls, and the commands that path passed to            *)
(*           connection.send, in the order of the sends                    *)
(*   module_states, command_lock, lock_waiters                             *)
(*           the lock-based handler of command.py: _module_states (<<>>    *)
(*           for an address that has no buffer), whether _command_lock is  *)
(*           held, and the tasks suspended in its acquire, oldest first    *)
(*   call    the set_output_state or set_output_states call each calling   *)
(*           task is in: its position, its arguments, the command it built *)
(*           and how often it wrote to the transport, with the buffer      *)
(*           before and after its synchronous part, and how its last call  *)
(*           ended ("returned" or "raised")                                *)
(*   requested                                                             *)
(*           history: per address and channel, <<v>> for the value last    *)
(*           passed to command.py's set_output_state, <<>> for none        *)
(*   built, formatted, checked                                             *)
(*           a call of make_pc_link_command, of int_to_hex and of          *)
(*           validate_crc: its arguments and, once done, what it returned  *)
(*   frame_buffer, response_queue                                          *)
(*           the listener's _frame_buffer and its response_queue           *)
(*   received, extracted, reads                                            *)
(*           history: all the text handed to _extract_frames so far, all   *)
(*           the frames it returned, in order, and the number of calls     *)
(*   events  history: the messages handed to the event callback, in order  *)
(*   listening, listener_task, tasks                                       *)
(*           the listener's _running and _listener_task (0 for None), and  *)
(*           every task start() created: its position, and why it is there *)
(*   late    history: the frames dispatched since the last stop() that no  *)
(*           start() followed                                              *)
(*   conn    the connection of nkbconnect.py: the position of connect(),   *)
(*           the type of its connection string, whether it holds a writer, *)
(*           the handshake commands whose send returned, whether the       *)
(*           controller's banner has arrived on the transport, and how the *)
(*           last connect() ended                                          *)
(*   interrupted                                                           *)
(*           history: where the _process_commands task was, and with which *)
(*           command, when the last stop() cancelled it                    *)
(*   stopping, unreferenced, orphan                                        *)
(*           whether a stop() of the command handler is suspended in its   *)
(*           await of the cancelled task; whether the task `loop` is alive *)
(*           while _command_task no longer names it; and an earlier task   *)
(*           of _process_commands that is still alive beside `loop`        *)
(***************************************************************************)
VARIABLES req, running, loop, command_queue, submitted, wire,
          module_states, command_lock, lock_waiters, call, requested,
          built, formatted, checked,
          frame_buffer, response_queue, received, extracted, reads, events,
          listening, listener_task, tasks, late,
          conn, interrupted, stopping, unreferenced, orphan

vars == <<req, running, loop, command_queue, submitted, wire,
          module_states, command_lock, lock_waiters, call, requested,
          built, formatted, checked,
          frame_buffer, response_queue, received, extracted, reads, events,
          listening, listener_task, tasks, late,
          conn, interrupted, stopping, unreferenced, orphan>>
codecVars == <<built, formatted, checked>>
listenerVars == <<frame_buffer, response_queue, received, extracted, reads, events>>
lifeVars == <<listening, listener_task, tasks, late>>
raceVars == <<stopping, unreferenced, orphan>>
ioVars == <<codecVars, listenerVars, lifeVars, conn, interrupted, raceVars>>
reqVars == <<req>>
queueVars == <<running, loop, command_queue, submitted, wire>>
cacheVars == <<module_states, command_lock, lock_waiters, call, requested>>

Callers == {"c1", "c2"}
AllChannels == 1..12

\* no call of the codec is under way (state "none"; a call is "asked", then "done")
NotBuilt == [state |-> "none", func |-> 0, addr |-> "", args |-> <<>>, command |-> ""]
NotFormatted ==
    [state |-> "none", value |-> 0, digits |-> 0, text |-> "", raised |-> FALSE]
NotChecked ==
    [state |-> "none", message |-> "", valid |-> FALSE, outcome |-> "none"]

\* one call of the codec with its arguments
CodecCalls ==
    {<<[NotBuilt EXCEPT !.state = "asked", !.func = f, !.addr = a, !.args = x],
       NotFormatted, NotChecked>> :
          f \in Functions, a \in BuildAddresses, x \in ArgLists}
    \cup {<<NotBuilt,
            [NotFormatted EXCEPT !.state = "asked", !.value = v, !.digits = d],
            NotChecked>> : v \in FormatValues, d \in FormatDigits}
    \cup {<<NotBuilt, NotFormatted,
            [NotChecked EXCEPT !.state = "asked", !.message = m]>> : m \in Messages}

IdleCall ==
    [pc |-> "idle", op |-> "", address |-> "", channel |-> 0, state |-> 0,
     command |-> "", sends |-> 0, before |-> <<>>, buffer |-> <<>>,
     expect |-> <<>>, outcome |-> ""]

IdleRequest ==
    [pc |-> "idle", command |-> "", ack_signal |-> "", answer_signal |-> "",
     attempt |-> 0, ack_received |-> FALSE, answer_received |-> None,
     ack_deadline |-> 0, recv_timer |-> 0, result |-> None, sent |-> 0,
     seenAck |-> FALSE, seenAns |-> FALSE, seenBoth |-> FALSE,
     firstSeen |-> None, lastAns |-> None, sendFailed |-> FALSE]

\* the listener tasks that start() can create, and a task that was not created
TaskIds == 1..MaxTasks
NoListener == [pc |-> "none", cause |-> "none"]

\* the connection before connect(): no transport, no handshake command sent
Unconnected ==
    [pc |-> "idle", kind |-> "none", open |-> FALSE, sent |-> <<>>,
     banner |-> FALSE, result |-> "none"]

NoTask == [pc |-> "none", command |-> ""]

InitProgram ==
    /\ req = [r \in Requesters |-> IdleRequest]
    /\ running = FALSE
    /\ loop = NoTask
    /\ command_queue = <<>>
    /\ submitted = <<>>
    /\ wire = <<>>
    /\ module_states = [a \in Addresses |-> <<>>]
    /\ command_lock = FALSE
    /\ lock_waiters = <<>>
    /\ call = [c \in Callers |-> IdleCall]
    /\ requested = [a \in Addresses |-> [ch \in AllChannels |-> <<>>]]
    /\ frame_buffer = ""
    /\ response_queue = <<>>
    /\ received = ""
    /\ extracted = <<>>
    /\ reads = 0
    /\ events = <<>>
    /\ listening = FALSE
    /\ listener_task = 0
    /\ tasks = [t \in TaskIds |-> NoListener]
    /\ late = <<>>
    /\ conn = Unconnected
    /\ interrupted = NoTask
    /\ stopping = FALSE
    /\ unreferenced = FALSE
    /\ orphan = NoTask

Init ==
    /\ InitProgram
    /\ built = NotBuilt
    /\ formatted = NotFormatted
    /\ checked = NotChecked

\* the program as constructed, with one call of the codec asked for
InitCodec ==
    /\ InitProgram
    /\ \E asked \in CodecCalls :
          built = asked[1] /\ formatted = asked[2] /\ checked = asked[3]

(***************************************************************************)
(* command_handler.py: the correlated request.                             *)
(***************************************************************************)
\* _prepare_signals: <<ack_signal, answer_signal>>
prepare_signals(command, address) ==
    LET command_part == SubSeq(command, 4, 5)
        answer_prefix == IF command_part = "11" THEN "$18" ELSE "$1C"
    IN <<"$05" \o command_part,
         answer_prefix \o SubSeq(address, 3, Len(address)) \o SubSeq(address, 1, 2)>>

\* a retry loop that runs one iteration too many
MoreAttemptsOffByOne(attempt) == attempt < MAX_ATTEMPTS

\* `for attempt in range(max_attempts)`: is there another iteration
MoreAttempts(attempt) == attempt + 1 < MAX_ATTEMPTS

\* the statements after the for loop: log what is missing, return answer_received
Finish(q) ==
    [q EXCEPT !.pc = "done", !.result = q.answer_received,
              !.ack_deadline = 0, !.recv_timer = 0]

\* top of the for body: `await self._send_command(command)` enters connection.send
BeginSend(q) ==
    [q EXCEPT !.pc = "sending", !.sent = q.sent + 1,
              !.ack_deadline = 0, !.recv_timer = 0]

\* the inner while is left (break, or deadline passed): next iteration or the end
NextAttempt(q) ==
    IF MoreAttempts(q.attempt)
    THEN BeginSend([q EXCEPT !.attempt = q.attempt + 1])
    ELSE Finish(q)

\* `while loop.time() < ack_deadline`: wait for another frame, or leave the while
ContinueWait(q) ==
    IF q.ack_deadline > 0
    THEN [q EXCEPT !.pc = "receiving", !.recv_timer = COMMAND_ANSWER_WAIT_TIMEOUT]
    ELSE NextAttempt(q)

\* `if ack_signal in message: ack_received = True`
NoteAck(q, message) ==
    q.ack_received \/ Contains(q.ack_signal, message)

\* an answer that is kept only once the acknowledgment has been seen
CaptureAnswerAfterAck(q, message) ==
    IF Contains(q.answer_signal, message) /\ q.ack_received
    THEN message ELSE q.answer_received

\* `if answer_signal in message: answer_received = message`
CaptureAnswer(q, message) ==
    IF Contains(q.answer_signal, message) THEN message ELSE q.answer_received

\* the body of the try block once receive() has returned `message`
OnMessage(q, message) ==
    LET q1 == [q EXCEPT !.ack_received = NoteAck(q, message),
                        !.answer_received = CaptureAnswer(q, message)]
    IN IF Contains(q.answer_signal, message)
       THEN NextAttempt(q1)                              \* break
       ELSE IF q1.ack_received /\ q1.answer_received # None
            THEN Finish(q1)                              \* return answer_received
            ELSE ContinueWait(q1)

\* what the request has been handed so far (history, not read by the code)
Observe(q, message) ==
    LET a == Contains(q.ack_signal, message)
        s == Contains(q.answer_signal, message)
        kind == IF a /\ s THEN "both" ELSE IF a THEN "ack" ELSE IF s THEN "ans" ELSE None
    IN [q EXCEPT !.seenAck = q.seenAck \/ a,
                 !.seenAns = q.seenAns \/ s,
                 !.seenBoth = q.seenBoth \/ (a /\ s),
                 !.firstSeen = IF q.firstSeen = None THEN kind ELSE q.firstSeen,
                 !.lastAns = IF s THEN message ELSE q.lastAns]

\* get_output_state(address, group) up to the first suspension, inside connection.send
GetOutputState(r, address, group) ==
    /\ req[r].pc = "idle"
    /\ LET command_code == IF group = 1 THEN 18 ELSE 23
           command == make_pc_link_command(command_code, address, <<>>)
           sig == prepare_signals(command, address)
       IN req' = [req EXCEPT ![r] =
              BeginSend([IdleRequest EXCEPT !.command = command,
                                            !.ack_signal = sig[1],
                                            !.answer_signal = sig[2]])]
    /\ UNCHANGED <<queueVars, cacheVars, ioVars>>

\* connection.send returns: ack_deadline is set and the first receive() of the
\* attempt is awaited
SendReturn(r) ==
    /\ req[r].pc = "sending"
    /\ req' = [req EXCEPT ![r] =
           ContinueWait([req[r] EXCEPT !.ack_deadline = COMMAND_ACK_WAIT_TIMEOUT])]
    /\ UNCHANGED <<queueVars, cacheVars, ioVars>>

\* connection.send raises: _send_command logs the error and returns, and the
\* attempt goes on as after a send that worked
SendFails(r) ==
    /\ req[r].pc = "sending"
    /\ req' = [req EXCEPT ![r] =
           ContinueWait([req[r] EXCEPT !.ack_deadline = COMMAND_ACK_WAIT_TIMEOUT,
                                       !.sendFailed = TRUE])]
    /\ UNCHANGED <<queueVars, cacheVars, ioVars>>

\* receive() hands `message` to r before wait_for's timeout
Receive(r, message) ==
    /\ req[r].pc = "receiving"
    /\ req[r].recv_timer > 0
    /\ req' = [req EXCEPT ![r] = OnMessage(Observe(req[r], message), message)]
    /\ UNCHANGED <<queueVars, cacheVars, ioVars>>

\* wait_for raises asyncio.TimeoutError
ReceiveTimeout(r) ==
    /\ req[r].pc = "receiving"
    /\ req[r].recv_timer = 0
    /\ req' = [req EXCEPT ![r] = ContinueWait(req[r])]
    /\ UNCHANGED <<queueVars, cacheVars, ioVars>>

\* the caller takes the returned value; the task may call again
ReturnToCaller(r) ==
    /\ req[r].pc = "done"
    /\ req' = [req EXCEPT ![r] = IdleRequest]
    /\ UNCHANGED <<queueVars, cacheVars, ioVars>>

Dec(n) == IF n > 0 THEN n - 1 ELSE 0

\* one second passes; a wait_for whose timeout is due fires before time goes on
Tick ==
    /\ \A r \in Requesters : req[r].pc = "receiving" => req[r].recv_timer > 0
    /\ \E r \in Requesters : req[r].ack_deadline > 0 \/ req[r].recv_timer > 0
    /\ req' = [r \in Requesters |->
                  [req[r] EXCEPT !.ack_deadline = Dec(req[r].ack_deadline),
                                 !.recv_timer = Dec(req[r].recv_timer)]]
    /\ UNCHANGED <<queueVars, cacheVars, ioVars>>

(***************************************************************************)
(* command_handler.py: the fire-and-forget path.                           *)
(***************************************************************************)
\* _prepare_command_values: 7 bytes, the channel's value and the termination byte
prepare_command_values(channel, value) ==
    [i \in 1..7 |-> IF i = 7 THEN 255
                    ELSE IF i = ((channel - 1) % 6) + 1 THEN value ELSE 0]

\* the function code set_output_state gives a group: 0x15 or 0x16
SetCode(group) == IF group = 1 THEN 21 ELSE 22

\* a queue that hands out its newest item
QueueGetNewest(queue) ==
    <<queue[Len(queue)], SubSeq(queue, 1, Len(queue) - 1)>>

\* a get that also loses the item behind the one it returns
QueueGetSkips(queue) ==
    <<Head(queue), IF Len(queue) > 1 THEN Tail(Tail(queue)) ELSE <<>> >>

\* asyncio.Queue.get on a queue that holds an item: <<the item, the queue left>>
QueueGet(queue) == <<Head(queue), Tail(queue)>>

\* _process_commands from its while test to its next suspension: the task ends,
\* or blocks in get(), or has taken a command and is inside connection.send
LoopIterate ==
    IF ~running
    THEN /\ loop' = NoTask
         /\ UNCHANGED <<command_queue, wire>>
    ELSE IF command_queue = <<>>
    THEN /\ loop' = [pc |-> "get", command |-> ""]
         /\ UNCHANGED <<command_queue, wire>>
    ELSE LET got == QueueGet(command_queue)
         IN /\ loop' = [pc |-> "sending", command |-> got[1]]
            /\ command_queue' = got[2]
            /\ wire' = Append(wire, got[1])

\* start(): nothing while _running is set; else a new task, which
\* _command_task names from now on.  A task that is still alive because no
\* stop() could cancel it stays alive beside the new one (the model keeps one
\* such task)
Start ==
    /\ ~running
    /\ loop.pc # "none" => orphan.pc = "none"
    /\ running' = TRUE
    /\ loop' = [pc |-> "new", command |-> ""]
    /\ orphan' = IF loop.pc # "none" THEN loop ELSE orphan
    /\ unreferenced' = FALSE
    /\ UNCHANGED <<codecVars, listenerVars, lifeVars, conn, interrupted, stopping,
                   cacheVars, req, command_queue, submitted, wire>>

\* stop() with nothing running between its cancel and the end of its await:
\* clear _running, cancel the task _command_task names and await its end;
\* CancelledError is raised at the await the task is suspended in (get, the
\* send or the sleep), or before its first step, and no handler of the loop
\* catches it
Stop ==
    /\ ~stopping
    /\ running' = FALSE
    /\ IF loop.pc = "none" \/ unreferenced
       THEN UNCHANGED <<loop, interrupted>>
       ELSE /\ interrupted' = loop
            /\ loop' = NoTask
    /\ UNCHANGED <<codecVars, listenerVars, lifeVars, conn, raceVars, cacheVars,
                   req, command_queue, submitted, wire>>

\* stop() up to its await: clear _running and, when _command_task names a
\* task, cancel it and suspend until it is over; with no task named, stop()
\* returns at once
StopBegin ==
    /\ ~stopping
    /\ running' = FALSE
    /\ IF loop.pc = "none" \/ unreferenced
       THEN UNCHANGED <<loop, interrupted, stopping>>
       ELSE /\ interrupted' = loop
            /\ loop' = NoTask
            /\ stopping' = TRUE
    /\ UNCHANGED <<codecVars, listenerVars, lifeVars, conn, unreferenced, orphan,
                   cacheVars, req, command_queue, submitted, wire>>

\* stop() resumes after its await and sets _command_task to None, whatever
\* task the attribute names by then
StopEnd ==
    /\ stopping
    /\ stopping' = FALSE
    /\ unreferenced' = (loop.pc # "none")
    /\ UNCHANGED <<codecVars, listenerVars, lifeVars, conn, interrupted, orphan,
                   cacheVars, reqVars, queueVars>>

\* a step of the earlier task, as LoopBegin, LoopGet, LoopSendReturn and
\* LoopSleepDone are for `loop`
OrphanRuns ==
    /\ \/ orphan.pc \in {"new", "sleep"}
       \/ orphan.pc = "get" /\ command_queue # <<>>
       \/ orphan.pc = "sending"
    /\ IF orphan.pc = "sending"
       THEN /\ orphan' = [pc |-> "sleep", command |-> ""]
            /\ UNCHANGED <<command_queue, wire>>
       ELSE IF ~running
       THEN /\ orphan' = NoTask
            /\ UNCHANGED <<command_queue, wire>>
       ELSE IF command_queue = <<>>
       THEN /\ orphan' = [pc |-> "get", command |-> ""]
            /\ UNCHANGED <<command_queue, wire>>
       ELSE LET got == QueueGet(command_queue)
            IN /\ orphan' = [pc |-> "sending", command |-> got[1]]
               /\ command_queue' = got[2]
               /\ wire' = Append(wire, got[1])
    /\ UNCHANGED <<codecVars, listenerVars, lifeVars, conn, interrupted, stopping,
                   unreferenced, cacheVars, req, running, loop, submitted>>

\* the created task runs for the first time
LoopBegin ==
    /\ loop.pc = "new"
    /\ LoopIterate
    /\ UNCHANGED <<ioVars, cacheVars, req, running, submitted>>

\* a put wakes the task blocked in get()
LoopGet ==
    /\ loop.pc = "get"
    /\ command_queue # <<>>
    /\ LoopIterate
    /\ UNCHANGED <<ioVars, cacheVars, req, running, submitted>>

\* connection.send returns or raises (logged and swallowed); the task sleeps
LoopSendReturn ==
    /\ loop.pc = "sending"
    /\ loop' = [pc |-> "sleep", command |-> ""]
    /\ UNCHANGED <<ioVars, cacheVars, req, running, command_queue, submitted, wire>>

\* the execution delay is over
LoopSleepDone ==
    /\ loop.pc = "sleep"
    /\ LoopIterate
    /\ UNCHANGED <<ioVars, cacheVars, req, running, submitted>>

\* set_output_state(address, channel, value): build the command and queue it
SetOutputState(address, channel, value) ==
    /\ Len(submitted) < MaxCmds
    /\ LET group == calculate_group_number(channel)
           command_code == SetCode(group)
           values == prepare_command_values(channel, value)
           command == make_pc_link_command(command_code, address, values)
       IN /\ command_queue' = Append(command_queue, command)
          /\ submitted' = Append(submitted, command)
    /\ UNCHANGED <<ioVars, cacheVars, req, running, loop, wire>>

(***************************************************************************)
(* command.py: the module state cache and the lock-guarded send.           *)
(***************************************************************************)
\* set_cached_state: the new _module_states
set_cached_state(states, address, channel, state) ==
    LET old == IF states[address] = <<>> THEN [i \in 1..6 |-> 0]
               ELSE states[address]
        idx == (channel - 1) % 6
    IN [states EXCEPT
           ![address] = [i \in 1..6 |-> IF i = idx + 1 THEN state ELSE old[i]]]

\* the function code command.py's set_output_state picks: 0x12 or 0x15
GroupCode(channel) == IF 1 <= channel /\ channel <= 6 THEN 18 ELSE 21

\* the fields of a frame that make_pc_link_command built
FuncOf(command) == ParseHex(SubSeq(command, 4, 5))
AddrOf(command) == SubSeq(command, 6, 9)
DataOf(command) ==
    [i \in 1..6 |-> ParseHex(SubSeq(command, 8 + 2 * i, 9 + 2 * i))]

\* the address as make_pc_link_command writes it, low byte first
LittleEndian(address) == SubSeq(address, 3, 4) \o SubSeq(address, 1, 2)

\* a release that makes no task runnable
ReleaseNobody(calls) == calls

\* Lock.release: the lock is free and the oldest task still suspended in
\* acquire is made runnable
Release(calls) ==
    LET waiting == {i \in 1..Len(lock_waiters) :
                        calls[lock_waiters[i]].pc = "waiting"}
        first == CHOOSE i \in waiting : \A j \in waiting : i <= j
    IN IF waiting = {} THEN calls
       ELSE [calls EXCEPT ![lock_waiters[first]].pc = "woken"]

\* queue_command up to its first suspension: the lock is taken at once when it
\* is free and nobody waits for it, and connection.send writes the command;
\* otherwise the task suspends in acquire
EnterQueueCommand(c, started) ==
    IF ~command_lock /\ lock_waiters = <<>>
    THEN /\ command_lock' = TRUE
         /\ call' = [call EXCEPT ![c] =
                        [started EXCEPT !.pc = "sending", !.sends = @ + 1]]
         /\ UNCHANGED lock_waiters
    ELSE /\ lock_waiters' = Append(lock_waiters, c)
         /\ call' = [call EXCEPT ![c] = [started EXCEPT !.pc = "waiting"]]
         /\ UNCHANGED command_lock

\* the values last requested for the six channels of a group, 0 for none
GroupExpect(history, group) ==
    [i \in 1..6 |-> LET h == history[6 * (group - 1) + i]
                    IN IF h = <<>> THEN <<0>> ELSE h]

\* set_output_state(address, channel, state) of command.py
set_output_state(c, address, channel, state) ==
    /\ call[c].pc = "idle"
    /\ LET states == set_cached_state(module_states, address, channel, state)
           data == states[address]
           pc_command == make_pc_link_command(GroupCode(channel), address, data)
           history == [requested[address] EXCEPT ![channel] = <<state>>]
       IN /\ module_states' = states
          /\ requested' = [requested EXCEPT ![address] = history]
          /\ EnterQueueCommand(c,
                [IdleCall EXCEPT !.op = "set", !.address = address,
                     !.channel = channel, !.state = state,
                     !.command = pc_command,
                     !.before = module_states[address], !.buffer = data,
                     !.expect = GroupExpect(history,
                                    calculate_group_number(channel))])
    /\ UNCHANGED <<reqVars, queueVars, ioVars>>

\* set_output_states(address): nothing happens for an address without a
\* buffer, else the buffer goes out as a group 1 command
set_output_states(c, address) ==
    /\ call[c].pc = "idle"
    /\ IF module_states[address] = <<>>
       THEN UNCHANGED <<command_lock, lock_waiters, call>>
       ELSE LET data == module_states[address]
                pc_command == make_pc_link_command(18, address, data)
            IN EnterQueueCommand(c,
                  [IdleCall EXCEPT !.op = "refresh", !.address = address,
                       !.command = pc_command,
                       !.before = data, !.buffer = data,
                       !.expect = requested[address]])
    /\ UNCHANGED <<module_states, requested, reqVars, queueVars, ioVars>>

\* a task made runnable by release leaves acquire holding the lock, and
\* connection.send writes its command
LockAcquired(c) ==
    /\ call[c].pc = "woken"
    /\ command_lock' = TRUE
    /\ lock_waiters' = SelectSeq(lock_waiters, LAMBDA w : w # c)
    /\ call' = [call EXCEPT ![c].pc = "sending", ![c].sends = @ + 1]
    /\ UNCHANGED <<module_states, requested, reqVars, queueVars, ioVars>>

\* connection.send returns: the task sleeps the inter-command delay
CommandSent(c) ==
    /\ call[c].pc = "sending"
    /\ call' = [call EXCEPT ![c].pc = "delay"]
    /\ UNCHANGED <<module_states, command_lock, lock_waiters, requested,
                   reqVars, queueVars, ioVars>>

\* connection.send raises: the error is logged and raised again, which
\* releases the lock and ends the call
CommandFailed(c) ==
    /\ call[c].pc = "sending"
    /\ command_lock' = FALSE
    /\ call' = Release([call EXCEPT ![c] = [IdleCall EXCEPT !.outcome = "raised"]])
    /\ UNCHANGED <<module_states, lock_waiters, requested, reqVars, queueVars, ioVars>>

\* connection.send returned and the caller's completion handler raises: the
\* error is logged and raised again, which releases the lock and ends the call
HandlerRaises(c) ==
    /\ call[c].pc = "sending"
    /\ command_lock' = FALSE
    /\ call' = Release([call EXCEPT ![c] = [IdleCall EXCEPT !.outcome = "raised"]])
    /\ UNCHANGED <<module_states, lock_waiters, requested, reqVars, queueVars, ioVars>>

\* the delay is over: the lock is released and the call returns
DelayDone(c) ==
    /\ call[c].pc = "delay"
    /\ command_lock' = FALSE
    /\ call' = Release([call EXCEPT ![c] = [IdleCall EXCEPT !.outcome = "returned"]])
    /\ UNCHANGED <<module_states, lock_waiters, requested, reqVars, queueVars, ioVars>>

(***************************************************************************)
(* listener.py: the framer and the dispatch of its frames.                 *)
(* A TLA+ string cannot hold U+0002 and U+0003: "{" and "}" stand for them. *)
(***************************************************************************)
STX == "{"
ETX == "}"

RECURSIVE Normalize(_)
\* raw.replace("\x02", "").replace("\x03", "").replace("\n", "\r")
Normalize(raw) ==
    IF Len(raw) = 0 THEN ""
    ELSE LET c == SubSeq(raw, 1, 1)
             rest == Normalize(SubSeq(raw, 2, Len(raw)))
         IN IF c = STX \/ c = ETX THEN rest
            ELSE IF c = "\n" THEN "\r" \o rest
            ELSE c \o rest

RECURSIVE Split(_, _)
\* str.split(sep) for a separator of one character
Split(text, sep) ==
    LET at == {i \in 1..Len(text) : SubSeq(text, i, i) = sep}
    IN IF at = {} THEN <<text>>
       ELSE LET k == CHOOSE i \in at : \A j \in at : i <= j
            IN <<SubSeq(text, 1, k - 1)>> \o Split(SubSeq(text, k + 1, Len(text)), sep)

\* a split that cuts after each `$` instead of before it
SplitAfterDollar(p) ==
    LET at == {i \in 1..(Len(p) - 1) : SubSeq(p, i, i) = "$"}
    IN IF at = {} THEN <<p>>
       ELSE LET k == CHOOSE i \in at : \A j \in at : i <= j
            IN <<SubSeq(p, 1, k), SubSeq(p, k + 1, Len(p))>>

RECURSIVE SplitBeforeDollar(_)
\* [f for f in re.split(r'(?=\$)', p) if f] for a non-empty p
SplitBeforeDollar(p) ==
    LET at == {i \in 2..Len(p) : SubSeq(p, i, i) = "$"}
    IN IF at = {} THEN <<p>>
       ELSE LET k == CHOOSE i \in at : \A j \in at : i <= j
            IN <<SubSeq(p, 1, k - 1)>> \o SplitBeforeDollar(SubSeq(p, k, Len(p)))

RECURSIVE ExtractParts(_)
\* the for loop of _extract_frames over the terminated segments
ExtractParts(parts) ==
    IF Len(parts) = 0 THEN <<>>
    ELSE LET p == strip(Head(parts))
         IN (IF Len(p) > 0 THEN SplitBeforeDollar(p) ELSE <<>>)
                \o ExtractParts(Tail(parts))

\* a framer that forgets the text it held back
extract_frames_forgetful(buffer, raw) ==
    LET joined == Normalize(raw)
        parts == Split(joined, "\r")
    IN IF Len(parts) = 1 THEN <<(<<>>), joined>>
       ELSE <<ExtractParts(SubSeq(parts, 1, Len(parts) - 1)), parts[Len(parts)]>>

\* a framer that also returns the text it holds back
extract_frames_eager(buffer, raw) ==
    LET joined == buffer \o Normalize(raw)
        parts == Split(joined, "\r")
    IN IF Len(parts) = 1 THEN <<(<<>>), joined>>
       ELSE <<ExtractParts(parts), parts[Len(parts)]>>

\* _extract_frames(raw) on the buffer `buffer`: <<the frames, the new buffer>>
extract_frames(buffer, raw) ==
    LET joined == buffer \o Normalize(raw)
        parts == Split(joined, "\r")
    IN IF Len(parts) = 1 THEN <<(<<>>), joined>>            \* no "\r" in it
       ELSE <<ExtractParts(SubSeq(parts, 1, Len(parts) - 1)), parts[Len(parts)]>>

\* _dispatch_message: is the message put on the response queue
Published(message) ==
    StartsWith(message, "$")
        /\ (StartsWith(message, "$05") \/ validate_crc(message))

RECURSIVE Dispatch(_)
\* what dispatching the frames one by one puts on the response queue
Dispatch(frames) ==
    IF Len(frames) = 0 THEN <<>>
    ELSE (IF Published(Head(frames)) THEN <<Head(frames)>> ELSE <<>>)
             \o Dispatch(Tail(frames))

\* one round of _listen_loop that read `data`: extract the frames, dispatch
\* them; the callbacks return, and the event callback is handed every frame
ListenerRead(data, limit) ==
    /\ Len(data) > 0
    /\ Len(received) + Len(data) <= limit
    /\ LET out == extract_frames(frame_buffer, data)
       IN /\ frame_buffer' = out[2]
          /\ extracted' = extracted \o out[1]
          /\ response_queue' = response_queue \o Dispatch(out[1])
          /\ events' = events \o out[1]
    /\ received' = received \o data
    /\ reads' = reads + 1
    /\ UNCHANGED <<codecVars, reqVars, queueVars, cacheVars, lifeVars, conn, interrupted, raceVars>>

\* the rounds of the listener for the chunks D, up to `limit` characters in all
ListenerNext(D, limit) == \E data \in D : ListenerRead(data, limit)

\* the characters of the text fed to the framer, and all texts of up to n
\* of them
Alphabet == {"$", "A", "\r", "\n", " ", "{"}
RECURSIVE Texts(_)
Texts(n) ==
    IF n = 0 THEN {""}
    ELSE LET shorter == Texts(n - 1)
         IN shorter \cup {t \o c : t \in shorter, c \in Alphabet}

\* the rounds of the listener for every chunk that fits in MaxText characters
FramerNext == \E data \in Texts(MaxText - Len(received)) : ListenerRead(data, MaxText)

(***************************************************************************)
(* listener.py: start, stop and the tasks running _listen_loop.            *)
(* A task is "new" once created, "reading" inside connection.read(),       *)
(* "backoff" inside the error path's sleep, and "ended" when its coroutine *)
(* is over.  The callbacks are the caller's: each of them returns or       *)
(* raises, without suspending the task.                                    *)
(***************************************************************************)
\* the timeout connection.read() puts on its readuntil (nkbconnect.py), and
\* the one _listen_loop puts on connection.read(), in seconds
READ_TIMEOUT == 5
LISTEN_TIMEOUT == 10

\* the callbacks of _dispatch_message that can raise
Faults == {"feedback", "event"}

\* _dispatch_message: is the message handed to the feedback callback
FeedbackCalled(message) ==
    StartsWith(message, "$1004") /\ validate_crc(message)

\* the frames _dispatch_message is called for when the callback `fault` raises
\* for the frame number `at` (0: no callback raises): the exception leaves the
\* for loop of _listen_loop
Dispatched(frames, at) ==
    IF at = 0 THEN frames ELSE SubSeq(frames, 1, at)

\* the frames the event callback is called for: a feedback callback that
\* raises leaves _dispatch_message before the event callback
Delivered(frames, at, fault) ==
    IF at = 0 THEN frames
    ELSE IF fault = "event" THEN SubSeq(frames, 1, at)
    ELSE SubSeq(frames, 1, at - 1)

\* except Exception: log the error, sleep one second
OnErrorEnds(cause) == [pc |-> "ended", cause |-> cause]
OnError(cause) == [pc |-> "backoff", cause |-> cause]

\* while self._running: the next read, or the end of the coroutine
LoopTest == IF listening THEN [pc |-> "reading", cause |-> "none"]
            ELSE [pc |-> "ended", cause |-> "stopped"]

\* Task.cancel(): CancelledError is raised at the await the task is suspended
\* in, or before its first step; no handler of _listen_loop catches it
Cancel(task) ==
    IF task.pc \in {"new", "reading", "backoff"}
    THEN [pc |-> "ended", cause |-> "cancelled"]
    ELSE task

\* start(): a new task, whatever the listener's state; the handle of an
\* earlier task is overwritten
ListenStart ==
    /\ \E t \in TaskIds : tasks[t].pc = "none"
    /\ LET t == CHOOSE t \in TaskIds :
                    tasks[t].pc = "none" /\ \A u \in 1..(t - 1) : tasks[u].pc # "none"
       IN /\ tasks' = [tasks EXCEPT ![t] = [pc |-> "new", cause |-> "none"]]
          /\ listener_task' = t
    /\ listening' = TRUE
    /\ UNCHANGED <<late, codecVars, listenerVars, reqVars, queueVars, cacheVars,
                   conn, interrupted, raceVars>>

\* stop(): cancels the task the handle names, if any
ListenStop ==
    /\ listening' = FALSE
    /\ tasks' = [t \in TaskIds |->
                    IF t = listener_task THEN Cancel(tasks[t]) ELSE tasks[t]]
    /\ listener_task' = 0
    /\ UNCHANGED <<late, codecVars, listenerVars, reqVars, queueVars, cacheVars,
                   conn, interrupted, raceVars>>

\* the first step of a task
TaskBegin(t) ==
    /\ tasks[t].pc = "new"
    /\ tasks' = [tasks EXCEPT ![t] = LoopTest]
    /\ UNCHANGED <<listening, listener_task, late, codecVars, listenerVars,
                   reqVars, queueVars, cacheVars, conn, interrupted, raceVars>>

\* connection.read() returns `data`: extract the frames and dispatch them one
\* by one, until a callback raises
TaskRead(t, data, at, fault, limit) ==
    /\ tasks[t].pc = "reading"
    /\ Len(data) > 0
    /\ Len(received) + Len(data) <= limit
    /\ LET out == extract_frames(frame_buffer, data)
           frames == out[1]
       IN /\ at <= Len(frames)
          /\ at > 0 /\ fault = "feedback" => FeedbackCalled(frames[at])
          /\ at = 0 => fault = "event"
          /\ frame_buffer' = out[2]
          /\ extracted' = extracted \o frames
          /\ response_queue' = response_queue \o Dispatch(Dispatched(frames, at))
          /\ events' = events \o Delivered(frames, at, fault)
          /\ late' = IF listening THEN late ELSE late \o Dispatched(frames, at)
          /\ tasks' = [tasks EXCEPT ![t] =
                          IF at = 0 THEN LoopTest ELSE OnError(fault)]
    /\ received' = received \o data
    /\ reads' = reads + 1
    /\ UNCHANGED <<listening, listener_task, codecVars, reqVars, queueVars,
                   cacheVars, conn, interrupted, raceVars>>

\* nothing arrives: the timer of connection.read() fires before the timer of
\* _listen_loop when it is the shorter one, and connection.read() turns it
\* into a NikobusReadError
TaskReadTimeout(t) ==
    /\ tasks[t].pc = "reading"
    /\ tasks' = [tasks EXCEPT ![t] =
                    IF READ_TIMEOUT < LISTEN_TIMEOUT THEN OnError("timeout")
                    ELSE LoopTest]
    /\ UNCHANGED <<listening, listener_task, late, codecVars, listenerVars,
                   reqVars, queueVars, cacheVars, conn, interrupted, raceVars>>

\* connection.read() raises NikobusReadError: no reader, a failed readuntil,
\* or a readuntil while another task is waiting on the same reader
TaskReadError(t) ==
    /\ tasks[t].pc = "reading"
    /\ tasks' = [tasks EXCEPT ![t] = OnError("read")]
    /\ UNCHANGED <<listening, listener_task, late, codecVars, listenerVars,
                   reqVars, queueVars, cacheVars, conn, interrupted, raceVars>>

\* the sleep of the error path is over
TaskBackoffDone(t) ==
    /\ tasks[t].pc = "backoff"
    /\ tasks' = [tasks EXCEPT ![t] = LoopTest]
    /\ UNCHANGED <<listening, listener_task, late, codecVars, listenerVars,
                   reqVars, queueVars, cacheVars, conn, interrupted, raceVars>>

\* what the listener's connection delivers in one read
LifeChunks == {"$0512\r", "#N4ECB1A\r$0512\r", BusFrame("0400000000") \o "\r"}

ListenNext(D, limit) ==
    \/ ListenStart
    \/ ListenStop
    \/ \E t \in TaskIds : TaskBegin(t)
    \/ \E t \in TaskIds, data \in D, at \in 0..2, fault \in Faults :
           TaskRead(t, data, at, fault, limit)
    \/ \E t \in TaskIds : TaskReadTimeout(t)
    \/ \E t \in TaskIds : TaskReadError(t)
    \/ \E t \in TaskIds : TaskBackoffDone(t)

(***************************************************************************)
(* nkbconnect.py: connect, its handshake and disconnect.                   *)
(***************************************************************************)
COMMANDS_HANDSHAKE ==
    <<"++++", "ATH0", "ATZ", "$10110000B8CF9D", "#L0", "#E0", "#L0", "#E1">>

\* what _parse_conn_str makes of a connection string
ConnTypes == {"IP", "SERIAL", "UNKNOWN"}

\* connect() on a connection that holds no transport: an unknown connection
\* string raises at once, otherwise the transport is being opened
Connect(kind) ==
    /\ conn.pc = "idle"
    /\ ~conn.open
    /\ conn' = IF kind = "UNKNOWN"
               THEN [Unconnected EXCEPT !.kind = kind,
                                        !.result = "NikobusConnectionError"]
               ELSE [Unconnected EXCEPT !.kind = kind, !.pc = "opening"]
    /\ UNCHANGED <<codecVars, listenerVars, lifeVars, interrupted, raceVars, reqVars,
                   queueVars, cacheVars>>

\* open_connection or open_serial_connection returns: _handshake begins
TransportOpened ==
    /\ conn.pc = "opening"
    /\ conn' = [conn EXCEPT !.pc = "handshake", !.open = TRUE]
    /\ UNCHANGED <<codecVars, listenerVars, lifeVars, interrupted, raceVars, reqVars,
                   queueVars, cacheVars>>

\* the port is not accessible, sits on USB 3, or the open raises
TransportFails ==
    /\ conn.pc = "opening"
    /\ conn' = [conn EXCEPT !.pc = "idle", !.result = "NikobusConnectionError"]
    /\ UNCHANGED <<codecVars, listenerVars, lifeVars, interrupted, raceVars, reqVars,
                   queueVars, cacheVars>>

\* _handshake: the send of the next command returns; after the last one
\* _handshake returns True and connect() returns
HandshakeSent ==
    /\ conn.pc = "handshake"
    /\ LET sent == Append(conn.sent, COMMANDS_HANDSHAKE[Len(conn.sent) + 1])
       IN conn' = IF Len(sent) < Len(COMMANDS_HANDSHAKE)
                  THEN [conn EXCEPT !.sent = sent]
                  ELSE [conn EXCEPT !.sent = sent, !.pc = "idle",
                                    !.result = "connected"]
    /\ UNCHANGED <<codecVars, listenerVars, lifeVars, interrupted, raceVars, reqVars,
                   queueVars, cacheVars>>

\* _handshake: the send of the next command raises NikobusSendError, _handshake
\* returns False and connect() disconnects; wait_closed() of the broken writer
\* returns (closed) or raises the transport's error before the handles are
\* cleared
HandshakeFails(closed) ==
    /\ conn.pc = "handshake"
    /\ conn' = IF closed
               THEN [conn EXCEPT !.pc = "idle", !.open = FALSE,
                                 !.result = "NikobusConnectionError"]
               ELSE [conn EXCEPT !.pc = "idle", !.result = "OSError"]
    /\ UNCHANGED <<codecVars, listenerVars, lifeVars, interrupted, raceVars, reqVars,
                   queueVars, cacheVars>>

\* the controller's banner arrives on the open transport; nothing in
\* connect() or _handshake reads the transport
BannerArrives ==
    /\ conn.open
    /\ ~conn.banner
    /\ conn' = [conn EXCEPT !.banner = TRUE]
    /\ UNCHANGED <<codecVars, listenerVars, lifeVars, interrupted, raceVars, reqVars,
                   queueVars, cacheVars>>

\* disconnect() outside connect()
Disconnect ==
    /\ conn.pc = "idle"
    /\ conn.open
    /\ conn' = [conn EXCEPT !.open = FALSE]
    /\ UNCHANGED <<codecVars, listenerVars, lifeVars, interrupted, raceVars, reqVars,
                   queueVars, cacheVars>>

ConnNext ==
    \/ \E kind \in ConnTypes : Connect(kind)
    \/ TransportOpened
    \/ TransportFails
    \/ HandshakeSent
    \/ \E closed \in BOOLEAN : HandshakeFails(closed)
    \/ BannerArrives
    \/ Disconnect

(***************************************************************************)
(* protocol.py and validate_crc called on their own.                       *)
(***************************************************************************)
\* make_pc_link_command(func, addr, args)
Build ==
    /\ built.state = "asked"
    /\ built' = [built EXCEPT
           !.state = "done",
           !.command = make_pc_link_command(built.func, built.addr, built.args)]
    /\ UNCHANGED <<formatted, checked, reqVars, queueVars, cacheVars, listenerVars,
                 lifeVars, conn, interrupted, raceVars>>

\* int_to_hex(value, digits): str.format has no way to fail on a non-negative
\* value and a positive width
Format ==
    /\ formatted.state = "asked"
    /\ formatted' = [formatted EXCEPT
           !.state = "done",
           !.text = int_to_hex(formatted.value, formatted.digits),
           !.raised = FALSE]
    /\ UNCHANGED <<built, checked, reqVars, queueVars, cacheVars, listenerVars,
                 lifeVars, conn, interrupted, raceVars>>

\* validate_crc(message)
Validate ==
    /\ checked.state = "asked"
    /\ checked' = [checked EXCEPT !.state = "done",
                                  !.valid = validate_crc(checked.message),
                                  !.outcome = ValidateOutcome(checked.message)]
    /\ UNCHANGED <<built, formatted, reqVars, queueVars, cacheVars, listenerVars,
                 lifeVars, conn, interrupted, raceVars>>

CodecNext == Build \/ Format \/ Validate

(***************************************************************************)
(* Specifications.                                                         *)
(***************************************************************************)
\* the correlated requests of the tasks R, for the modules A and the groups G
TxnNext(R, A, G) ==
    \/ \E r \in R, a \in A, g \in G : GetOutputState(r, a, g)
    \/ \E r \in R : SendReturn(r)
    \/ \E r \in R, m \in Frames : Receive(r, m)
    \/ \E r \in R : ReceiveTimeout(r)
    \/ \E r \in R : ReturnToCaller(r)
    \/ Tick

\* the fire-and-forget path of command_handler.py, for the modules A, the
\* channels C and the values V
QueueNext(A, C, V) ==
    \/ Start
    \/ LoopBegin
    \/ LoopGet
    \/ LoopSendReturn
    \/ LoopSleepDone
    \/ \E a \in A, c \in C, v \in V : SetOutputState(a, c, v)

\* the calls of the tasks K into command.py, for the modules A, the channels
\* C and the values V
CacheNext(K, A, C, V) ==
    \/ \E c \in K, a \in A, ch \in C, v \in V : set_output_state(c, a, ch, v)
    \/ \E c \in K, a \in A : set_output_states(c, a)
    \/ \E c \in K : LockAcquired(c)
    \/ \E c \in K : CommandSent(c)
    \/ \E c \in K : CommandFailed(c)
    \/ \E c \in K : DelayDone(c)

\* the calls into command.py by callers that pass a completion handler
LockNext(K, A, C, V) ==
    \/ CacheNext(K, A, C, V)
    \/ \E c \in K : HandlerRaises(c)

\* one correlated request at a time
SpecTxn == Init /\ [][TxnNext({"r1"}, Addresses, Groups)]_vars

\* one correlated request at a time over a transport whose send can fail
SpecTxnErr ==
    Init /\ [][TxnNext({"r1"}, {"1A2B"}, {1}) \/ SendFails("r1")]_vars

\* the codec and the validator called with every input
SpecCodec == InitCodec /\ [][CodecNext]_vars

\* the framer fed every text of up to MaxText characters in every chunking
SpecFramer == Init /\ [][FramerNext]_vars

\* the listener reading the controller's frames
SpecListener == Init /\ [][ListenerNext(RawChunks, MaxRaw)]_vars

\* the listener started and stopped while its connection delivers frames,
\* times out and fails, and its callbacks raise
SpecListen == Init /\ [][ListenNext(LifeChunks, MaxRaw)]_vars

\* the event loop resumes a task whose sleep is over
SpecListenFair ==
    SpecListen /\ \A t \in TaskIds : WF_vars(TaskBackoffDone(t))

\* the processing loop started and stopped while commands are queued
SpecStop == Init /\ [][QueueNext({"1A2B"}, {1, 7}, {255}) \/ Stop]_vars

\* the processing loop started and stopped by calls that interleave with a
\* stop() suspended in its await, while commands are queued
RaceNext(A, C, V) ==
    \/ QueueNext(A, C, V)
    \/ StopBegin
    \/ StopEnd
    \/ OrphanRuns

SpecRace == Init /\ [][RaceNext({"1A2B"}, {1}, {255})]_vars

\* connections made and closed
SpecConnect == Init /\ [][ConnNext]_vars

\* two tasks setting one output through a transport that can fail, with
\* completion handlers that can raise
SpecLock == Init /\ [][LockNext(Callers, {"1A2B"}, {1, 7}, {255})]_vars

\* the event loop resumes a task made runnable by release, a send returns or
\* raises, and the inter-command sleep ends
SpecLockFair ==
    /\ SpecLock
    /\ \A c \in Callers :
           /\ WF_vars(LockAcquired(c))
           /\ WF_vars(CommandSent(c) \/ CommandFailed(c) \/ HandlerRaises(c))
           /\ WF_vars(DelayDone(c))

\* two tasks issuing correlated requests to one module
SpecTxn2 == Init /\ [][TxnNext(Requesters, {"1A2B"}, Groups)]_vars

\* two tasks setting and refreshing the outputs of one module
SpecCache == Init /\ [][CacheNext(Callers, {"1A2B"}, Channels, Values)]_vars

SpecQueue == Init /\ [][QueueNext({"1A2B"}, {1, 7}, Values)]_vars

\* the event loop runs the created task and resumes it when an item is put,
\* when its send has returned or raised, and when its sleep is over
SpecQueueFair ==
    /\ SpecQueue
    /\ WF_vars(LoopBegin)
    /\ WF_vars(LoopGet)
    /\ WF_vars(LoopSendReturn)
    /\ WF_vars(LoopSleepDone)

\* the processing loop beside one correlated request
SpecBus ==
    Init /\ [][QueueNext({"1A2B"}, {1}, {255}) \/ TxnNext({"r1"}, {"1A2B"}, {1})]_vars

\* the event loop resumes a task whose send has returned, wait_for's timer
\* fires when it is due, and time goes on
SpecTxnFair ==
    /\ SpecTxn
    /\ WF_vars(Tick)
    /\ \A r \in Requesters : WF_vars(SendReturn(r)) /\ WF_vars(ReceiveTimeout(r))

Next ==
    \/ QueueNext(Addresses, Channels, Values)
    \/ TxnNext(Requesters, Addresses, Groups)
    \/ CacheNext(Callers, Addresses, Channels, Values)
    \/ \E r \in Requesters : SendFails(r)
    \/ CodecNext
    \/ ListenerNext(RawChunks, MaxRaw)
    \/ FramerNext
    \/ ListenNext(LifeChunks, MaxRaw)
    \/ Stop
    \/ StopBegin
    \/ StopEnd
    \/ OrphanRuns
    \/ ConnNext
    \/ \E c \in Callers : HandlerRaises(c)

Spec == Init /\ [][Next]_vars
(***************************************************************************)
(* The tasks that are inside connection.send.                              *)
(***************************************************************************)
InSend ==
    {r \in Requesters : req[r].pc = "sending"}
        \cup (IF loop.pc = "sending" THEN {"loop"} ELSE {})
        \cup {c \in Callers : call[c].pc = "sending"}

(***************************************************************************)
(* Properties.                                                             *)
(***************************************************************************)
\* C1: a correlated request that was handed no frame matching its
\* acknowledgment signature returns None and has sent the command exactly
\* MAX_ATTEMPTS times, whatever other frames it was handed.
C1_NoAckReturnsNone ==
    \A r \in Requesters :
        (req[r].pc = "done" /\ ~req[r].seenAck)
            => (req[r].result = None /\ req[r].sent = MAX_ATTEMPTS)

\* C2: once a correlated request has been handed a frame matching the
\* acknowledgment signature and a frame matching the answer signature, it has
\* returned: it is not sending again and not waiting for another frame.
C2_ReturnsOnceBothSeen ==
    \A r \in Requesters :
        (req[r].seenAck /\ req[r].seenAns) => req[r].pc = "done"

\* C3: a correlated request that was handed an answer frame first and an
\* acknowledgment frame later, as separate frames, has returned, and what it
\* returned is the answer frame it was handed last, not None.
C3_AnswerBeforeAck ==
    \A r \in Requesters :
        (req[r].firstSeen = "ans" /\ req[r].seenAck /\ ~req[r].seenBoth)
            => /\ req[r].pc = "done"
               /\ req[r].result = req[r].lastAns
               /\ req[r].result # None

C3_Witness ==
    \E r \in Requesters :
        /\ req[r].firstSeen = "ans" /\ req[r].seenAck /\ ~req[r].seenBoth
        /\ req[r].pc = "done"
        /\ req[r].sent = 2

\* C4: a correlated request never sends the command more than MAX_ATTEMPTS
\* times, and every request that has started returns, having sent the command
\* at least once and at most MAX_ATTEMPTS times, whatever frames and timeouts
\* it meets.
C4_Terminates ==
    /\ [](\A r \in Requesters : req[r].sent <= MAX_ATTEMPTS)
    /\ \A r \in Requesters :
           (req[r].pc \in {"sending", "receiving"})
               ~> (req[r].pc = "done" /\ req[r].sent \in 1..MAX_ATTEMPTS)

C4_Witness ==
    \E r \in Requesters :
        /\ req[r].pc = "done"
        /\ req[r].sent = MAX_ATTEMPTS
        /\ req[r].result = None
        /\ ~req[r].seenAns

\* C5: at most one task is inside a transport send at any moment.
C5_OneSender == Cardinality(InSend) <= 1

\* C6: at most one correlated request is in flight (sending its command or
\* waiting for a frame) at any time.
C6_OneInFlight ==
    Cardinality({r \in Requesters : req[r].pc \in {"sending", "receiving"}}) <= 1

\* C7: the commands passed to the transport by the fire-and-forget path are
\* the commands submitted, in the order of submission, each once: the
\* commands submitted are those sent followed by those still queued.
C7_Fifo == submitted = wire \o command_queue

C7_Witness ==
    /\ Len(wire) >= 2
    /\ wire[1] # wire[2]
    /\ command_queue # <<>>

\* the frames of command.py's calls that went out on the transport
OnTransport(op) ==
    {c \in Callers : call[c].op = op /\ call[c].pc \in {"sending", "delay"}}

\* C8: the six data bytes of the frame a set_output_state call sends are, for
\* each channel of the group the frame addresses, the value last requested for
\* that channel and 0 for a channel never set: no other channel's value
\* changes, and no value of the other group appears.
C8_FrameMatchesRequests ==
    \A c \in OnTransport("set") :
        \A i \in 1..6 : DataOf(call[c].command)[i] = call[c].expect[i][1]

\* C9: a group refresh sends one frame whose six data bytes are the cached
\* buffer, in which index channel-1 holds the value last set for every channel
\* that was set, and the refresh leaves the buffer as it was.
C9_RefreshSendsLastValues ==
    \A c \in OnTransport("refresh") :
        /\ call[c].sends = 1
        /\ DataOf(call[c].command) = call[c].buffer
        /\ call[c].buffer = call[c].before
        /\ \A ch \in 1..6 :
              call[c].expect[ch] # <<>>
                  => DataOf(call[c].command)[ch] = call[c].expect[ch][1]

\* C10: a set_output_state call for a channel in 1..6 sends exactly one frame,
\* which carries the function code that sets group 1, the address with its low
\* byte first, and the value as the data byte at index channel-1.
C10_SetGroupOneFrame ==
    \A c \in OnTransport("set") :
        call[c].channel \in 1..6
            => /\ call[c].sends = 1
               /\ FuncOf(call[c].command) = SetCode(1)
               /\ AddrOf(call[c].command) = LittleEndian(call[c].address)
               /\ DataOf(call[c].command)[call[c].channel] = call[c].state


\* C11: a send failure on the fire-and-forget path is logged and swallowed:
\* no set_output_state or set_output_states call ends by raising.
C11_SendFailureSwallowed ==
    \A c \in Callers : call[c].outcome # "raised"

\* C12: a correlated request during which connection.send raised hands its
\* caller a failure, not None and not a frame.
C12_SendFailureSurfaces ==
    \A r \in Requesters :
        (req[r].pc = "done" /\ req[r].sendFailed) => req[r].result = "NikobusSendError"


\* C13: the length field of a built command is the number of characters that
\* follow the length field, plus 1.
C13_LengthCountsCharacters ==
    built.state = "done"
        => ParseHex(SubSeq(built.command, 2, 3)) = (Len(built.command) - 3) + 1

\* C14: validate_crc accepts every built command.
C14_BuiltCommandValidates ==
    built.state = "done" => validate_crc(built.command)

C16_FixedWidthOrFails ==
    formatted.state = "done"
        => IF formatted.value < 16 ^ formatted.digits
           THEN Len(formatted.text) = formatted.digits /\ ~formatted.raised
           ELSE formatted.raised


RECURSIVE LastRun(_)
\* the part of a message validate_crc ends up examining: from its last `$` on
LastRun(message) ==
    IF Count(message, "$") > 1 THEN LastRun(FromSecond(message, "$")) ELSE message

\* C19: for a data frame (not a 5-character acknowledgment) that validate_crc
\* accepts, flipping any one bit of the value of its two CRC-8 digits gives a
\* frame that validate_crc rejects.
C19_CrcBitFlipRejected ==
    (/\ checked.state = "done"
     /\ checked.valid
     /\ ~(Len(LastRun(checked.message)) = 5
            /\ StartsWith(LastRun(checked.message), "$05")))
        => \A k \in 0..7 : ~validate_crc(FlipCrcBit(checked.message, k))

C19_Witness ==
    /\ checked.state = "done"
    /\ checked.valid
    /\ checked.message = BusFrame("2B1A00FF")
    /\ ~validate_crc(FlipCrcBit(checked.message, 0))


\* C17: however the text received so far was cut into chunks, the frames
\* returned and the text held back are those of a single _extract_frames call
\* on the whole text.
C17_ChunkingIndependent ==
    <<extracted, frame_buffer>> = extract_frames("", received)

C17_Witness ==
    /\ reads >= 3
    /\ Len(extracted) >= 2
    /\ frame_buffer # ""
    /\ C17_ChunkingIndependent

\* C18: every frame the framer returned holds at most one `$`, and holds it
\* as its first character.
C18_OneDollarFirst ==
    \A i \in 1..Len(extracted) :
        /\ Count(extracted[i], "$") <= 1
        /\ Count(extracted[i], "$") = 1 => StartsWith(extracted[i], "$")

C18_Witness ==
    /\ received = "$A$A\r"
    /\ extracted = <<"$A", "$A">>

\* C20: every frame on the response queue is a 5-character `$05xx`
\* acknowledgment or a `$` frame that validate_crc accepts.
C20_OnlyValidFramesPublished ==
    \A i \in 1..Len(response_queue) :
        LET message == response_queue[i]
        IN \/ Len(message) = 5 /\ StartsWith(message, "$05")
           \/ StartsWith(message, "$") /\ validate_crc(message)

\* C21: the event callback is handed only frames that passed validation: no
\* "$" frame that fails validate_crc is ever among the messages it received.
C21_OnlyValidatedEvents ==
    \A i \in 1..Len(events) :
        StartsWith(events[i], "$") => validate_crc(events[i])

\* C22: the listener loop never ends on its own: a task running _listen_loop
\* is over only because stop cancelled it or cleared _running, and a task
\* that took the error path after an exception goes on to another read unless
\* stop ends it.
C22_LoopSurvivesErrors ==
    /\ [](\A t \in TaskIds :
            tasks[t].pc = "ended" => tasks[t].cause \in {"cancelled", "stopped"})
    /\ \A t \in TaskIds :
            (tasks[t].pc = "backoff") ~> (tasks[t].pc \in {"reading", "ended"})

\* a task that took the error path because a callback raised is reading again
\* while the listener is still started
C22_Witness ==
    \E t \in TaskIds :
        /\ tasks[t].pc = "reading"
        /\ listening
        /\ Len(events) < Len(extracted)

\* C23: after stop the listener is idle: until start is called again no frame
\* is put on the response queue or handed to a callback.
C23_IdleAfterStop == late = <<>>

\* _dispatch_message lets the frame through when it starts with "$" only if
\* validate_crc accepts it
Passed(message) == StartsWith(message, "$") => validate_crc(message)

\* C26: every validated frame the framer extracted is handed to the event
\* callback exactly once and in extraction order, whatever a callback raised
\* for it or for an earlier frame of the same read.
C26_EveryFrameDelivered ==
    SelectSeq(events, Passed) = SelectSeq(extracted, Passed)

\* C30: a read that times out on an idle bus never takes the error path (the
\* error log and the one-second sleep).
C30_TimeoutSkipsErrorPath ==
    \A t \in TaskIds :
        ~(tasks[t].pc = "backoff" /\ tasks[t].cause = "timeout")

\* C24: stop lets the processing loop finish the command it is working on:
\* the loop is never ended while it is inside the send of a command.
C24_StopFinishesCurrent == interrupted.pc # "sending"

\* C25: connect succeeds only if every handshake command was sent, in the
\* order of COMMANDS_HANDSHAKE, and the controller's banner was observed;
\* a connect that failed raised a connection error and left no transport open.
C25_ConnectNeedsBanner ==
    /\ conn.result = "connected" =>
           conn.sent = COMMANDS_HANDSHAKE /\ conn.banner
    /\ (conn.pc = "idle" /\ conn.result \notin {"none", "connected"}) =>
           conn.result = "NikobusConnectionError" /\ ~conn.open

\* C27: a failed command never blocks later commands: the command lock is held
\* only by a task that is sending or in its inter-command delay, also after a
\* send or a completion handler raised, and every task waiting for the lock
\* gets to send its command.
C27_FailureReleasesLock ==
    /\ [](command_lock => \E c \in Callers : call[c].pc \in {"sending", "delay"})
    /\ \A c \in Callers : (call[c].pc = "waiting") ~> (call[c].pc = "sending")

\* one task's call ended by raising and another task's command is being sent
C27_Witness ==
    \E c, d \in Callers :
        /\ c # d
        /\ call[c].pc = "idle"
        /\ call[c].outcome = "raised"
        /\ call[d].pc = "sending"

\* the position of the last terminator of a cleaned text, 0 for none
LastTerminator(text) ==
    LET at == {i \in 1..Len(text) : SubSeq(text, i, i) = "\r"}
    IN IF at = {} THEN 0 ELSE CHOOSE i \in at : \A j \in at : j <= i

RECURSIVE Flatten(_)
\* the characters of a list of frames
Flatten(frames) ==
    IF Len(frames) = 0 THEN "" ELSE Head(frames) \o Flatten(Tail(frames))

\* the characters of the terminated segments of a cleaned text, without the
\* white space around each segment
TerminatedText(text) ==
    LET k == LastTerminator(text)
        parts == IF k = 0 THEN <<>> ELSE Split(SubSeq(text, 1, k - 1), "\r")
    IN Flatten([i \in 1..Len(parts) |-> strip(parts[i])])

\* C28: after every _extract_frames call the buffer is exactly the cleaned text
\* received after the last terminator, it holds no terminator, and the frames
\* returned are made of the terminated text only: no character of the tail
\* held back is in them.
C28_BufferIsUnterminatedTail ==
    LET text == Normalize(received)
    IN /\ frame_buffer = SubSeq(text, LastTerminator(text) + 1, Len(text))
       /\ Count(frame_buffer, "\r") = 0
       /\ Flatten(extracted) = TerminatedText(text)

\* one call returned a frame and held back the text after the terminator
C28_Witness ==
    /\ reads = 1
    /\ Len(extracted) >= 1
    /\ frame_buffer # ""

\* C29: validate_crc returns true or false for every string, the empty one,
\* those shorter than 3 characters and those whose length field is no
\* hexadecimal number included: no exception leaves a call.
C29_ValidateNeverRaises ==
    checked.state = "done" =>
        /\ checked.outcome \in {"True", "False"}
        /\ checked.valid <=> checked.outcome = "True"

\* C31: at most one task running _listen_loop is alive at any time, whatever
\* start and stop calls were made: a start while listening launches no second
\* loop, and no earlier loop outlives a stop.
C31_OneListenerTask ==
    Cardinality({t \in TaskIds : tasks[t].pc \in {"new", "reading", "backoff"}}) <= 1

\* C32: a task running _process_commands is alive only while _command_task
\* names it, however start and stop calls interleave: no processing loop is
\* left that a later stop cannot cancel.
C32_NoOrphanLoop ==
    /\ ~(unreferenced /\ loop.pc # "none")
    /\ orphan.pc = "none"

\* C33: while the command handler stays started and its sends return, every
\* command put on the queue is dequeued and passed to connection.send, once:
\* what was sent and what is still queued are together the commands
\* submitted, each once, and the n-th command submitted is eventually the
\* n-th command sent.
C33_EveryCommandSentOnce ==
    /\ [](submitted = wire \o command_queue)
    /\ \A n \in 1..(MaxCmds + 1) :
           (running /\ Len(submitted) >= n)
               ~> (Len(wire) >= n /\ wire[n] = submitted[n])

\* the loop has sent every command submitted, a send that follows a queued
\* command included, and waits for the next one
C33_Witness ==
    /\ running
    /\ loop.pc = "get"
    /\ Len(submitted) >= 2
    /\ wire = submitted
    /\ command_queue = <<>>

=============================================================================
